---------------------------- MODULE Spec2Model ----------------------------
(***************************************************************************)
(* A model of the sheet-to-JSON build scripts of openrecovery-sales:        *)
(*   "build"  : src/scripts/build-data.mjs (Map indices, norm keys,         *)
(*              assertHas schema validation, empty-sheet guard)             *)
(*   "keyify" : src/unnamed/part_001 (plain-object indices, keyify keys,    *)
(*              case-insensitive pick, id-then-name company resolution)     *)
(* A text is a sequence of characters; a character is a one-token string.   *)
(***************************************************************************)
EXTENDS Integers, Sequences, FiniteSets, TLC

VARIABLES
  variant,      \* which script runs: "build" or "keyify"
  text,         \* parseCSV: the raw CSV text handed to the parser
  rowsIn,       \* round trip: the rows that were serialized into text
  parsed,       \* parseCSV: the sequence of row mappings returned
  rtHeader,     \* round trip: the column names that were serialized
  rtEol,        \* round trip: the line break the serializer writes
  csvpc,        \* parseCSV: "typing" | "ready" | "parsed"
  ks,           \* keyify: the argument
  k1,           \* keyify: keyify(ks)
  k2,           \* keyify: keyify(keyify(ks))
  kpc,          \* keyify: "in" | "once" | "twice"
  pc,           \* the script's position
  sheetId,      \* process.env.SHEET_ID is set
  remote,       \* the spreadsheet: per sheet, the HTTP status, the header and whether it has rows
  budget,       \* per sheet, the most rows a walk hands over
  fetched,      \* per sheet: "none" | "httpError" | "empty" | "rows"
  hdr,          \* per sheet: the column names of its rows (Object.keys(rows[0]))
  idx,          \* rows of the sheet being walked that forEach has handed over
  problemMap,   \* normalized problem -> {problem, solution, feature}
  problemsCount,
  companyMap,   \* normalized name / id -> company, in insertion order
  missingCompany,       \* build-data.mjs counter
  missingProblem,       \* build-data.mjs counter
  matchedLinks,         \* part_001 counter
  unmatchedCompanies,   \* part_001 counter
  unmatchedProblems,    \* part_001 Set of raw problem texts
  output,       \* what was written to data.json, or NotWritten
  companyRows,  \* history: per identity key, the first and the last Companies row that yields a company
  problemRows,  \* history: per normalized problem, the last Problems row with it
  named,        \* history: <<company key, problem key>> of the link rows that resolved both
  unresolvedRows, \* history: link rows whose company reference names no company
  fatal         \* history: the fatal conditions the run has met

csvVars == <<text, rowsIn, parsed, rtHeader, rtEol, csvpc>>
keyVars == <<ks, k1, k2, kpc>>
runVars == <<pc, sheetId, remote, budget, fetched, hdr, idx>>
indexVars == <<problemMap, problemsCount, companyMap>>
countVars == <<missingCompany, missingProblem, matchedLinks, unmatchedCompanies, unmatchedProblems>>
histVars == <<companyRows, problemRows, named, unresolvedRows, fatal>>
pipeVars == <<runVars, indexVars, countVars, output, histVars>>
vars == <<variant, csvVars, keyVars, pipeVars>>

Variants == {"build", "keyify"}

-----------------------------------------------------------------------------
(* Characters *)

SP    == " "
COMMA == ","
DQ    == "\""
LF    == "\n"
CR    == "\r"
NBSP  == "nbsp"     \* U+00A0
LDQUO == "ldquo"    \* U+201C
RDQUO == "rdquo"    \* U+201D
LSQUO == "lsquo"    \* U+2018
RSQUO == "rsquo"    \* U+2019
APOS  == "'"
HY    == "-"
US    == "_"
BANG  == "!"
AMP   == "&"
PIPE  == "|"
NoChar == "undefined"   \* text[i] past the end of the string

\* The value `undefined` where the code reads a property that is not there.
Undefined == <<"undefined">>

\* What String.prototype.trim and the regex class \s treat as white space.
IsSpace(c) == c \in {SP, LF, CR, NBSP}

LowerOf(c) ==
  CASE c = "A" -> "a"
    [] c = "B" -> "b"
    [] c = "C" -> "c"
    [] OTHER -> c

IsLowerAlnum(c) == c \in {"a", "b", "c", "d", "n", "o", "r", "s", "t", "u", "1", "2"}

SeqsUpTo(S, n) == UNION {[1..k -> S] : k \in 0..n}

RECURSIVE TrimLeft(_)
TrimLeft(s) ==
  IF s # <<>> /\ IsSpace(Head(s)) THEN TrimLeft(Tail(s)) ELSE s

RECURSIVE TrimRight(_)
TrimRight(s) ==
  IF s # <<>> /\ IsSpace(s[Len(s)]) THEN TrimRight(SubSeq(s, 1, Len(s) - 1)) ELSE s

\* String.prototype.trim
Trim(s) == TrimRight(TrimLeft(s))

\* String.prototype.toLowerCase
ToLowerCase(s) == [i \in 1..Len(s) |-> LowerOf(s[i])]

IsBlank(s) == Trim(s) = <<>>

\* (x || "").toString().trim().toLowerCase()
norm(x) == IF x = Undefined THEN <<>> ELSE ToLowerCase(Trim(x))

\* s.replace(/<one character of from>/g, to), to a text of any length
RECURSIVE ReplaceEach(_, _, _)
ReplaceEach(s, from, to) ==
  IF s = <<>> THEN <<>>
  ELSE (IF Head(s) \in from THEN to ELSE <<Head(s)>>) \o ReplaceEach(Tail(s), from, to)

\* s.replace(/[^a-z0-9\s-]/g, "")
DropPunctuation(s) == SelectSeq(s, LAMBDA c : IsLowerAlnum(c) \/ IsSpace(c) \/ c = HY)

\* s.replace(/\s+/g, " ")
RECURSIVE CollapseSpaces(_)
CollapseSpaces(s) ==
  IF s = <<>> THEN <<>>
  ELSE IF IsSpace(Head(s))
       THEN <<SP>> \o CollapseSpaces(TrimLeft(s))
       ELSE <<Head(s)>> \o CollapseSpaces(Tail(s))

\* keyify with the final .trim() left out
keyifyNoTrim(x) ==
  CollapseSpaces(
    ReplaceEach(
      DropPunctuation(
        ReplaceEach(
          ReplaceEach(
            ReplaceEach(norm(x), {NBSP}, <<SP>>),
            {LDQUO, RDQUO}, <<DQ>>),
          {LSQUO, RSQUO}, <<APOS>>)),
      {HY, US}, <<SP>>))

keyify(x) ==
  Trim(
    CollapseSpaces(
      ReplaceEach(
        DropPunctuation(
          ReplaceEach(
            ReplaceEach(
              ReplaceEach(norm(x), {NBSP}, <<SP>>),
              {LDQUO, RDQUO}, <<DQ>>),
            {LSQUO, RSQUO}, <<APOS>>)),
        {HY, US}, <<SP>>)))

-----------------------------------------------------------------------------
(* parseCSV *)

SomeNonBlank(row) == \E i \in 1..Len(row) : ~IsBlank(row[i])

\* The scanning loop: st = [rows, row, cur, inQuotes], i the index of the
\* character read next (1-based).
RECURSIVE Scan(_, _, _)
Scan(t, i, st) ==
  IF i > Len(t) THEN st
  ELSE
    LET c == t[i]
        n == IF i + 1 <= Len(t) THEN t[i + 1] ELSE NoChar
    IN  IF c = DQ /\ st.inQuotes /\ n = DQ
          THEN Scan(t, i + 2, [st EXCEPT !.cur = Append(@, DQ)])
        ELSE IF c = DQ
          THEN Scan(t, i + 1, [st EXCEPT !.inQuotes = ~@])
        ELSE IF c = COMMA /\ ~st.inQuotes
          THEN Scan(t, i + 1, [st EXCEPT !.row = Append(@, st.cur), !.cur = <<>>])
        ELSE IF c \in {LF, CR} /\ ~st.inQuotes
          THEN LET row2 == Append(st.row, st.cur)
               IN  Scan(t, IF c = CR /\ n = LF THEN i + 2 ELSE i + 1,
                        [st EXCEPT !.rows = IF SomeNonBlank(row2) THEN Append(@, row2) ELSE @,
                                   !.row = <<>>,
                                   !.cur = <<>>])
        ELSE Scan(t, i + 1, [st EXCEPT !.cur = Append(@, c)])

ScanStart == [rows |-> <<>>, row |-> <<>>, cur |-> <<>>, inQuotes |-> FALSE]

\* The flush left out: a last row that no line break ends is lost.
FlushNoTrailing(st) == st.rows

\* if (cur || row.length) { row.push(cur); rows.push(row); }
Flush(st) ==
  IF st.cur # <<>> \/ Len(st.row) > 0
    THEN Append(st.rows, Append(st.row, st.cur))
    ELSE st.rows

\* All raw rows of the text: the loop and the flush.
RawRows(t) == Flush(Scan(t, 1, ScanStart))

\* (rows.shift() || []).map(h => (h || "").trim())
Headers(rows) ==
  IF rows = <<>> THEN <<>> ELSE [j \in 1..Len(rows[1]) |-> Trim(rows[1][j])]

\* headers.forEach((h, i) => o[h] = (r[i] || "").trim()): a later column of the
\* same name overwrites an earlier one.
RowObject(headers, r, keys) ==
  [h \in keys |->
     LET i == CHOOSE j \in 1..Len(headers) :
                headers[j] = h /\ \A m \in (j + 1)..Len(headers) : headers[m] # h
     IN  IF i <= Len(r) THEN Trim(r[i]) ELSE <<>>]

\* build-data.mjs: columns with an empty header are left out; every row that
\* remains after the header is mapped.
parseCSVBuild(t) ==
  LET rows == RawRows(t)
      headers == Headers(rows)
      data == IF rows = <<>> THEN <<>> ELSE Tail(rows)
      keys == {headers[j] : j \in 1..Len(headers)} \ {<<>>}
  IN  [k \in 1..Len(data) |-> RowObject(headers, data[k], keys)]

\* part_001: rows with no non-blank cell are filtered out after the header is
\* taken; an empty header is a key like any other.
parseCSVKeyify(t) ==
  LET rows == RawRows(t)
      headers == Headers(rows)
      data == IF rows = <<>> THEN <<>> ELSE SelectSeq(Tail(rows), SomeNonBlank)
      keys == {headers[j] : j \in 1..Len(headers)}
  IN  [k \in 1..Len(data) |-> RowObject(headers, data[k], keys)]

parseCSV(v, t) == IF v = "build" THEN parseCSVBuild(t) ELSE parseCSVKeyify(t)

-----------------------------------------------------------------------------
(* Field resolver, keys and indices of the two scripts *)

\* Column names are whole strings; a row is a function from the column names
\* of its sheet to (trimmed) cell texts.
LowerName(k) ==
  CASE k = "Company ID" -> "company id"
    [] k = "ID" -> "id"
    [] k = "Company Name" -> "company name"
    [] k = "Company" -> "company"
    [] k = "Name" -> "name"
    [] k = "Problem" -> "problem"
    [] k = "Common Problem" -> "common problem"
    [] k = "Common Problem " -> "common problem"      \* k.trim().toLowerCase()
    [] k = "Solution" -> "solution"
    [] k = "Our Solution" -> "our solution"
    [] k = "Feature" -> "feature"
    [] k = "OpenRecovery Feature" -> "openrecovery feature"
    [] k = "Open Recovery Feature" -> "open recovery feature"
    [] k = "Website" -> "website"
    [] k = "URL" -> "url"
    [] k = "Location" -> "location"
    [] k = "Target" -> "target"
    [] k = "Target Audience" -> "target audience"
    [] k = "Org Types" -> "org types"
    [] k = "Org Types " -> "org types"
    [] k = "Org Type" -> "org type"
    [] k = "Category" -> "category"
    [] OTHER -> k

\* build-data.mjs pick: the first key the row has with a non-blank value.
RECURSIVE pickBuild(_, _)
pickBuild(obj, keys) ==
  IF keys = <<>> THEN <<>>
  ELSE IF Head(keys) \in DOMAIN obj /\ ~IsBlank(obj[Head(keys)])
         THEN Trim(obj[Head(keys)])
         ELSE pickBuild(obj, Tail(keys))

\* part_001 pick: per key, the column of that very name, else the column whose
\* name is the key but for case (row.__keyMap).
RECURSIVE pickKeyify(_, _)
pickKeyify(row, keys) ==
  IF keys = <<>> THEN <<>>
  ELSE
    LET k == Head(keys)
        reals == {h \in DOMAIN row : LowerName(h) = LowerName(k)}
    IN  IF k \in DOMAIN row /\ ~IsBlank(row[k]) THEN Trim(row[k])
        ELSE IF \E h \in reals : ~IsBlank(row[h])
               THEN Trim(row[CHOOSE h \in reals : ~IsBlank(row[h])])
               ELSE pickKeyify(row, Tail(keys))

pick(v, row, keys) == IF v = "build" THEN pickBuild(row, keys) ELSE pickKeyify(row, keys)

\* s.replace(/[^a-z0-9]+/g, "-")
RECURSIVE DashRuns(_, _)
DashRuns(s, inRun) ==
  IF s = <<>> THEN <<>>
  ELSE IF IsLowerAlnum(Head(s))
         THEN <<Head(s)>> \o DashRuns(Tail(s), FALSE)
         ELSE (IF inRun THEN <<>> ELSE <<HY>>) \o DashRuns(Tail(s), TRUE)

RECURSIVE StripLeft(_, _)
StripLeft(s, c) == IF s # <<>> /\ Head(s) = c THEN StripLeft(Tail(s), c) ELSE s

RECURSIVE StripRight(_, _)
StripRight(s, c) ==
  IF s # <<>> /\ s[Len(s)] = c THEN StripRight(SubSeq(s, 1, Len(s) - 1), c) ELSE s

\* norm(x).replace(/&/g, "and").replace(/[^a-z0-9]+/g, "-").replace(/^-+|-+$/g, "")
slug(x) ==
  StripRight(StripLeft(DashRuns(ReplaceEach(norm(x), {AMP}, <<"a", "n", "d">>), FALSE), HY), HY)

\* key.replace(/\s+/g, "-")
RECURSIVE DashSpaces(_)
DashSpaces(s) ==
  IF s = <<>> THEN <<>>
  ELSE IF IsSpace(Head(s))
         THEN <<HY>> \o DashSpaces(TrimLeft(s))
         ELSE <<Head(s)>> \o DashSpaces(Tail(s))

\* s.split("|").map(x => x.trim()).filter(Boolean)
RECURSIVE SplitPipe(_, _)
SplitPipe(s, cur) ==
  IF s = <<>> THEN <<cur>>
  ELSE IF Head(s) = PIPE THEN <<cur>> \o SplitPipe(Tail(s), <<>>)
  ELSE SplitPipe(Tail(s), Append(cur, Head(s)))

OrgTypes(s) ==
  LET parts == SplitPipe(s, <<>>)
  IN  SelectSeq([i \in 1..Len(parts) |-> Trim(parts[i])], LAMBDA x : x # <<>>)

\* The problem key of each script.
ProblemKey(v, x) == IF v = "build" THEN norm(x) ELSE keyify(x)

\* What a plain object ({}) answers for a key it does not own but
\* Object.prototype has: obj["constructor"] is the function Object, a truthy
\* value all of whose record fields read as undefined.
Constructor == <<"c", "o", "n", "s", "t", "r", "u", "c", "t", "o", "r">>
InheritedKeys == {Constructor}
ObjectFunction == [problem |-> Undefined, solution |-> Undefined, feature |-> Undefined]

\* companyMap: entries [key, rec] in insertion order; setting a key that is
\* there replaces the value in place.
HasKey(m, k) == \E i \in 1..Len(m) : m[i].key = k
Get(m, k) == m[CHOOSE i \in 1..Len(m) : m[i].key = k].rec
Keys(m) == {m[i].key : i \in 1..Len(m)}

\* The first write of a key wins: a later one is dropped.
PutIfAbsent(m, k, rec) ==
  IF HasKey(m, k) THEN m ELSE Append(m, [key |-> k, rec |-> rec])

\* companyMap.set(key, rec) / companyMap[key] = rec
Put(m, k, rec) ==
  IF HasKey(m, k)
    THEN [i \in 1..Len(m) |-> IF m[i].key = k THEN [key |-> k, rec |-> rec] ELSE m[i]]
    ELSE Append(m, [key |-> k, rec |-> rec])

\* problemMap.set(key, rec) / problemMap[key] = rec
SetProblem(m, k, rec) == [x \in DOMAIN m \cup {k} |-> IF x = k THEN rec ELSE m[x]]

NoValue == [none |-> TRUE]

\* problemMap.get(k) (a Map) / problemMap[k] (a plain object): the record, or a
\* value inherited from Object.prototype, or nothing.
LookupProblem(v, m, k) ==
  IF k \in DOMAIN m THEN m[k]
  ELSE IF v = "keyify" /\ k \in InheritedKeys THEN ObjectFunction
  ELSE NoValue

\* { problem, solution, feature } of a Problems row
ProblemOf(v, row) ==
  IF v = "build"
    THEN [problem  |-> pick(v, row, <<"Problem">>),
          solution |-> pick(v, row, <<"Solution">>),
          feature  |-> pick(v, row, <<"Feature", "OpenRecovery Feature">>)]
    ELSE [problem  |-> pick(v, row, <<"Problem", "Common Problem", "Common Problem ">>),
          solution |-> pick(v, row, <<"Solution", "Our Solution">>),
          feature  |-> pick(v, row, <<"OpenRecovery Feature", "Open Recovery Feature", "Feature">>)]

CompanyName(v, row) ==
  IF v = "build" THEN pick(v, row, <<"Company Name", "Company">>)
                 ELSE pick(v, row, <<"Company Name", "Name">>)

CompanyId(v, row) ==
  IF v = "build" THEN pick(v, row, <<"Company ID">>)
                 ELSE pick(v, row, <<"Company ID", "ID">>)

\* The company object a Companies row makes.
CompanyOf(v, row) ==
  LET name == CompanyName(v, row) IN
  IF v = "build"
    THEN [id |-> IF CompanyId(v, row) # <<>> THEN CompanyId(v, row)
                 ELSE IF slug(name) # <<>> THEN slug(name)
                 ELSE DashSpaces(norm(name)),
          name |-> name,
          website |-> pick(v, row, <<"Website", "URL">>),
          location |-> pick(v, row, <<"Location">>),
          target |-> pick(v, row, <<"Target", "Target Audience">>),
          org_types |-> OrgTypes(pick(v, row, <<"Org Types", "Org Type", "Category">>)),
          solutions |-> <<>>,
          problems |-> <<>>]
    ELSE [id |-> CompanyId(v, row),
          name |-> name,
          website |-> pick(v, row, <<"Website", "URL">>),
          location |-> pick(v, row, <<"Location">>),
          target |-> pick(v, row, <<"Target">>),
          org_types |-> OrgTypes(pick(v, row, <<"Org Types", "Org Types ">>)),
          solutions |-> <<>>]

\* Whether a Companies row yields a company, and under which key.
YieldsCompany(v, row) ==
  IF v = "build" THEN CompanyName(v, row) # <<>>
                 ELSE CompanyId(v, row) # <<>> /\ CompanyName(v, row) # <<>>

CompanyKey(v, row) ==
  IF v = "build" THEN norm(CompanyName(v, row)) ELSE norm(CompanyId(v, row))

Sheets == {"Companies", "Problems", "Company Solutions"}

\* The columns assertHas demands (build-data.mjs).
Required(sheet) ==
  CASE sheet = "Companies" -> {"Company Name"}
    [] sheet = "Problems" -> {"Problem", "Solution", "Feature"}
    [] sheet = "Company Solutions" -> {"Company Name", "Problem"}

\* assertHas that never throws.
assertHasNothing(sheet, present) == TRUE

\* assertHas(sheetName, rows, required) does not throw.
assertHas(sheet, present) == Required(sheet) \subseteq present

NotWritten == [written |-> FALSE]

PipeIdle ==
  /\ pc = "idle"
  /\ sheetId = FALSE
  /\ remote = <<>>
  /\ budget = <<>>
  /\ fatal = {}
  /\ fetched = [s \in Sheets |-> "none"]
  /\ hdr = [s \in Sheets |-> {}]
  /\ idx = 0
  /\ problemMap = <<>>
  /\ problemsCount = 0
  /\ companyMap = <<>>
  /\ missingCompany = 0
  /\ missingProblem = 0
  /\ matchedLinks = 0
  /\ unmatchedCompanies = 0
  /\ unmatchedProblems = {}
  /\ output = NotWritten
  /\ companyRows = <<>>
  /\ problemRows = <<>>
  /\ named = {}
  /\ unresolvedRows = 0

-----------------------------------------------------------------------------
(* Bounds *)

MaxText == 5      \* characters of a raw CSV text
MaxKeyLen == 4    \* characters of a keyify argument

CsvAlphabet == {"a", SP, COMMA, DQ, LF, CR}
KeyAlphabet == {"a", "A", "1", SP, NBSP, HY, US, LDQUO, RSQUO, DQ, APOS, BANG}

-----------------------------------------------------------------------------
(* parseCSV applied to any text *)

CsvIdle ==
  /\ text = <<>>
  /\ rowsIn = <<>>
  /\ parsed = <<>>
  /\ rtHeader = <<>>
  /\ rtEol = <<>>
  /\ csvpc = "idle"
KeyIdle == ks = <<>> /\ k1 = <<>> /\ k2 = <<>> /\ kpc = "idle"

InitCSV ==
  /\ variant \in Variants
  /\ text \in SeqsUpTo(CsvAlphabet, MaxText)
  /\ rowsIn = <<>>
  /\ parsed = <<>>
  /\ rtHeader = <<>>
  /\ rtEol = <<>>
  /\ csvpc = "ready"
  /\ KeyIdle
  /\ PipeIdle

Parse ==
  /\ csvpc = "ready"
  /\ parsed' = parseCSV(variant, text)
  /\ csvpc' = "parsed"
  /\ UNCHANGED <<variant, text, rowsIn, rtHeader, rtEol, keyVars, pipeVars>>

NextCSV == Parse

SpecCSV == InitCSV /\ [][NextCSV]_vars

-----------------------------------------------------------------------------
(* The input rows of a text, as the claims about parseCSV speak of them *)

\* Every row of the text, blank or not: the text cut at the unquoted line
\* breaks and each piece cut at its unquoted commas.
RECURSIVE SplitRows(_, _, _)
SplitRows(t, i, st) ==
  IF i > Len(t)
    THEN IF st.cur # <<>> \/ Len(st.row) > 0
           THEN Append(st.rows, Append(st.row, st.cur))
           ELSE st.rows
  ELSE
    LET c == t[i]
        n == IF i + 1 <= Len(t) THEN t[i + 1] ELSE NoChar
    IN  IF c = DQ /\ st.inQuotes /\ n = DQ
          THEN SplitRows(t, i + 2, [st EXCEPT !.cur = Append(@, DQ)])
        ELSE IF c = DQ
          THEN SplitRows(t, i + 1, [st EXCEPT !.inQuotes = ~@])
        ELSE IF c = COMMA /\ ~st.inQuotes
          THEN SplitRows(t, i + 1, [st EXCEPT !.row = Append(@, st.cur), !.cur = <<>>])
        ELSE IF c \in {LF, CR} /\ ~st.inQuotes
          THEN SplitRows(t, IF c = CR /\ n = LF THEN i + 2 ELSE i + 1,
                         [st EXCEPT !.rows = Append(@, Append(st.row, st.cur)),
                                    !.row = <<>>,
                                    !.cur = <<>>])
        ELSE SplitRows(t, i + 1, [st EXCEPT !.cur = Append(@, c)])

InputRows(t) == SplitRows(t, 1, ScanStart)

NonBlankInputRows(t) == SelectSeq(InputRows(t), SomeNonBlank)

\* The first non-blank row is the header; every later non-blank row is data.
DataRowCount(t) ==
  IF NonBlankInputRows(t) = <<>> THEN 0 ELSE Len(NonBlankInputRows(t)) - 1

\* C8: parseCSV drops blank rows: the result holds no more row mappings than
\* the text has non-blank rows after its header, so no row whose cells are
\* all empty or white space contributes a mapping, the last row included.
C8_BlankRowsDropped == csvpc = "parsed" => Len(parsed) <= DataRowCount(text)

-----------------------------------------------------------------------------
(* Round trip: rows are typed, serialized the RFC-4180 way, and parsed *)

MaxRTRows == 2    \* rows serialized
MaxRTChars == 3   \* characters in all the cells together

CellAlphabet == {SP, COMMA, DQ, LF}

H1 == <<"h", "1">>
H2 == <<"h", "2">>
RTHeaders == {<<H1, H2>>, <<<<SP>> \o H1, H2>>}
RTEols == {<<LF>>, <<CR, LF>>}

RECURSIVE SumLen(_)
SumLen(row) == IF row = <<>> THEN 0 ELSE Len(Head(row)) + SumLen(Tail(row))

RECURSIVE TotalChars(_)
TotalChars(rows) == IF rows = <<>> THEN 0 ELSE SumLen(Head(rows)) + TotalChars(Tail(rows))

\* A cell between double quotes, its own double quotes doubled.
QuoteCell(cell) == <<DQ>> \o ReplaceEach(cell, {DQ}, <<DQ, DQ>>) \o <<DQ>>

RECURSIVE JoinWith(_, _)
JoinWith(pieces, sep) ==
  IF pieces = <<>> THEN <<>>
  ELSE IF Len(pieces) = 1 THEN Head(pieces)
  ELSE Head(pieces) \o sep \o JoinWith(Tail(pieces), sep)

SerializeRow(row) == JoinWith([j \in 1..Len(row) |-> QuoteCell(row[j])], <<COMMA>>)

\* The header line and the rows, separated by the line break.
Serialize(header, rows, eol) ==
  JoinWith([k \in 1..(Len(rows) + 1) |->
              SerializeRow(IF k = 1 THEN header ELSE rows[k - 1])], eol)

InitRT ==
  /\ variant \in Variants
  /\ rtHeader \in RTHeaders
  /\ rtEol \in RTEols
  /\ rowsIn = <<>>
  /\ text = <<>>
  /\ parsed = <<>>
  /\ csvpc = "typing"
  /\ KeyIdle
  /\ PipeIdle

RowsComplete == \A k \in 1..Len(rowsIn) : Len(rowsIn[k]) = Len(rtHeader)

\* A new row is begun (with its first cell, empty).
NewRow ==
  /\ csvpc = "typing"
  /\ RowsComplete
  /\ Len(rowsIn) < MaxRTRows
  /\ rowsIn' = Append(rowsIn, <<<<>>>>)
  /\ UNCHANGED <<variant, text, parsed, rtHeader, rtEol, csvpc, keyVars, pipeVars>>

\* The next cell of the last row is begun, empty.
NewCell ==
  /\ csvpc = "typing"
  /\ rowsIn # <<>>
  /\ Len(rowsIn[Len(rowsIn)]) < Len(rtHeader)
  /\ rowsIn' = [rowsIn EXCEPT ![Len(rowsIn)] = Append(@, <<>>)]
  /\ UNCHANGED <<variant, text, parsed, rtHeader, rtEol, csvpc, keyVars, pipeVars>>

\* A character is added to the last cell.
TypeChar ==
  /\ csvpc = "typing"
  /\ rowsIn # <<>>
  /\ TotalChars(rowsIn) < MaxRTChars
  /\ \E c \in CellAlphabet :
       rowsIn' = [rowsIn EXCEPT ![Len(rowsIn)][Len(rowsIn[Len(rowsIn)])] = Append(@, c)]
  /\ UNCHANGED <<variant, text, parsed, rtHeader, rtEol, csvpc, keyVars, pipeVars>>

SerializeRows ==
  /\ csvpc = "typing"
  /\ RowsComplete
  /\ text' = Serialize(rtHeader, rowsIn, rtEol)
  /\ csvpc' = "ready"
  /\ UNCHANGED <<variant, rowsIn, parsed, rtHeader, rtEol, keyVars, pipeVars>>

NextRT == NewRow \/ NewCell \/ TypeChar \/ SerializeRows \/ Parse

SpecRT == InitRT /\ [][NextRT]_vars

HeaderClean == \A j \in 1..Len(rtHeader) : rtHeader[j] # <<>> /\ Trim(rtHeader[j]) = rtHeader[j]

\* The rows as they went in, column name by column name.
RoundTripWith(F(_)) ==
  /\ Len(parsed) = Len(rowsIn)
  /\ \A k \in 1..Len(rowsIn) : \A j \in 1..Len(rtHeader) :
       /\ rtHeader[j] \in DOMAIN parsed[k]
       /\ parsed[k][rtHeader[j]] = F(rowsIn[k][j])

Same(cell) == cell

\* C9 as stated: parsing the serialization returns the same number of rows in
\* the same order with every cell equal to the original value exactly.
C9_RoundTripExact == csvpc = "parsed" => RoundTripWith(Same)

\* C9 as amended: when the column names have no surrounding white space and
\* every row has a cell that is not white space only, the rows come back in
\* number and order with every cell equal to the original value trimmed.
C9_RoundTripTrimmed ==
  (csvpc = "parsed" /\ HeaderClean /\ \A k \in 1..Len(rowsIn) : SomeNonBlank(rowsIn[k]))
    => RoundTripWith(Trim)

\* A row came back whose first cell holds a double quote and a comma and
\* whose second, a line break, was trimmed to nothing.
C9_Witness ==
  /\ csvpc = "parsed"
  /\ HeaderClean
  /\ rowsIn = << <<<<DQ, COMMA>>, <<LF>>>> >>
  /\ Len(parsed) = 1
  /\ parsed[1][H1] = <<DQ, COMMA>>
  /\ parsed[1][H2] = <<>>

-----------------------------------------------------------------------------
(* The build script, from the SHEET_ID check to data.json *)

MaxProblemRows == 2   \* rows of the Problems sheet
MaxCompanyRows == 2   \* rows of the Companies sheet
MaxLinkRows == 2      \* rows of the Company Solutions sheet

CompanyColumns == {"Website", "Location", "Target", "Org Types"}
CompaniesHeaders ==
  { {"Company ID", "Company Name"} \cup CompanyColumns,
    {"Company Name"} \cup CompanyColumns,
    {"Company ID"} \cup CompanyColumns }
ProblemsHeaders ==
  { {"Problem", "Solution", "Feature"},
    {"Common Problem", "Solution", "Feature"},
    {"Problem", "Solution", "OpenRecovery Feature"},
    {"problem", "Solution", "Feature"},
    {"Problem", "Feature"} }
LinksHeaders ==
  { {"Company Name", "Problem"},
    {"Company ID", "Problem"},
    {"Company ID", "Company Name", "Problem"},
    {"Company Name", "Common Problem"} }

HeaderChoices(sheet) ==
  CASE sheet = "Companies" -> CompaniesHeaders
    [] sheet = "Problems" -> ProblemsHeaders
    [] sheet = "Company Solutions" -> LinksHeaders

\* The rows a sheet may hold: every row over its header whose cells come from
\* the sheet's vocabulary (texts are trimmed, as parseCSV leaves them).
ProblemRowsOf(h, cells) ==
  { [c \in h |->
       CASE c \in {"Problem", "Common Problem", "problem"} -> pt
         [] c = "Solution" -> sol
         [] OTHER -> ft] :
    pt \in cells.problems, sol \in cells.solutions, ft \in cells.features }

CompanyRowsOf(h, cells) ==
  { [c \in h |->
       CASE c = "Company ID" -> id
         [] c = "Company Name" -> name
         [] c = "Website" -> <<"w", d>>
         [] c = "Location" -> <<"l", d>>
         [] c = "Target" -> <<"t", d>>
         [] OTHER -> IF d = "1" THEN <<"x", PIPE, SP, "y">> ELSE <<"y", PIPE>>] :
    id \in cells.ids, name \in cells.names, d \in cells.details }

LinkRowsOf(h, cells) ==
  { [c \in h |->
       CASE c = "Company ID" -> id
         [] c = "Company Name" -> name
         [] OTHER -> pt] :
    id \in cells.ids, name \in cells.names, pt \in cells.problems }

\* A spreadsheet: each sheet answers with an HTTP error or with a text that
\* parses to rows under a header, or to no row at all.
SheetStates(headers, cells) ==
  {[status |-> "httpError", header |-> {}, empty |-> TRUE, cells |-> cells]}
  \cup {[status |-> "ok", header |-> {}, empty |-> TRUE, cells |-> cells]}
  \cup {[status |-> "ok", header |-> h, empty |-> FALSE, cells |-> cells] : h \in headers}

InitRun(worlds, budgets) ==
  /\ variant \in Variants
  /\ CsvIdle
  /\ KeyIdle
  /\ pc = "start"
  /\ sheetId \in BOOLEAN
  /\ remote \in worlds
  /\ budget = budgets
  /\ fetched = [s \in Sheets |-> "none"]
  /\ hdr = [s \in Sheets |-> {}]
  /\ idx = 0
  /\ problemMap = <<>>
  /\ problemsCount = 0
  /\ companyMap = <<>>
  /\ missingCompany = 0
  /\ missingProblem = 0
  /\ matchedLinks = 0
  /\ unmatchedCompanies = 0
  /\ unmatchedProblems = {}
  /\ output = NotWritten
  /\ companyRows = <<>>
  /\ problemRows = <<>>
  /\ named = {}
  /\ unresolvedRows = 0
  /\ fatal = {}

\* if (!SHEET_ID) throw new Error("Missing SHEET_ID")
CheckSheetId ==
  /\ pc = "start"
  /\ pc' = IF sheetId THEN "loadCompanies" ELSE "aborted"
  /\ fatal' = IF sheetId THEN fatal ELSE fatal \cup {"config"}
  /\ UNCHANGED <<variant, csvVars, keyVars, sheetId, remote, budget, fetched, hdr, idx,
                 indexVars, countVars, output, companyRows, problemRows, named,
                 unresolvedRows>>

\* The fatal conditions a sheet's answer brings, as the spec lists them: a
\* non-success response, no row, a required column that is not there.
FatalOf(sheet) ==
  IF remote[sheet].status = "httpError" THEN {"http"}
  ELSE IF remote[sheet].empty THEN {"empty"}
  ELSE IF ~(Required(sheet) \subseteq remote[sheet].header) THEN {"schema"}
  ELSE {}

\* loadCSV of build-data.mjs: throws on a non-success response and on no row.
loadCSVBuild(sheet, next) ==
  IF remote[sheet].status # "ok"
    THEN /\ fetched' = [fetched EXCEPT ![sheet] = "httpError"]
         /\ pc' = "aborted"
         /\ UNCHANGED hdr
  ELSE IF remote[sheet].empty
    THEN /\ fetched' = [fetched EXCEPT ![sheet] = "empty"]
         /\ pc' = "aborted"
         /\ UNCHANGED hdr
  ELSE /\ fetched' = [fetched EXCEPT ![sheet] = "rows"]
       /\ hdr' = [hdr EXCEPT ![sheet] = remote[sheet].header]
       /\ pc' = next

\* loadCSV of part_001: throws on a non-success response only.
loadCSVKeyify(sheet, next) ==
  IF remote[sheet].status # "ok"
    THEN /\ fetched' = [fetched EXCEPT ![sheet] = "httpError"]
         /\ pc' = "aborted"
         /\ UNCHANGED hdr
  ELSE /\ fetched' = [fetched EXCEPT ![sheet] = IF remote[sheet].empty THEN "empty" ELSE "rows"]
       /\ hdr' = [hdr EXCEPT ![sheet] = remote[sheet].header]
       /\ pc' = next

loadCSV(sheet, next) ==
  /\ IF variant = "build" THEN loadCSVBuild(sheet, next) ELSE loadCSVKeyify(sheet, next)
  /\ fatal' = fatal \cup FatalOf(sheet)
  /\ UNCHANGED <<variant, csvVars, keyVars, sheetId, remote, budget, idx,
                 indexVars, countVars, output, companyRows, problemRows, named,
                 unresolvedRows>>

LoadCompanies == pc = "loadCompanies" /\ loadCSV("Companies", "loadProblems")

LoadProblems == pc = "loadProblems" /\ loadCSV("Problems", "loadLinks")

LoadLinks ==
  /\ pc = "loadLinks"
  /\ loadCSV("Company Solutions", IF variant = "build" THEN "validate" ELSE "problems")

\* The three assertHas calls (build-data.mjs only).
ValidateHeaders ==
  /\ pc = "validate"
  /\ pc' = IF /\ assertHas("Companies", hdr["Companies"])
              /\ assertHas("Problems", hdr["Problems"])
              /\ assertHas("Company Solutions", hdr["Company Solutions"])
             THEN "problems" ELSE "aborted"
  /\ UNCHANGED <<variant, csvVars, keyVars, sheetId, remote, budget, fetched, hdr, idx,
                 indexVars, countVars, output, histVars>>

\* A walk over a sheet hands over at least one row when the sheet has rows,
\* and none when it parsed to no row.
MayEnd(sheet) == fetched[sheet] = "rows" => idx >= 1

\* problems.forEach / problemsRows.forEach, one row
ProblemRow ==
  /\ pc = "problems"
  /\ fetched["Problems"] = "rows"
  /\ idx < budget["Problems"]
  /\ \E row \in ProblemRowsOf(hdr["Problems"], remote["Problems"].cells) :
       LET rec == ProblemOf(variant, row)
           k == ProblemKey(variant, rec.problem)
       IN  IF rec.problem = <<>>
             THEN UNCHANGED <<problemMap, problemsCount, problemRows>>
             ELSE /\ problemMap' = SetProblem(problemMap, k, rec)
                  /\ problemsCount' = IF variant = "keyify" THEN problemsCount + 1 ELSE problemsCount
                  /\ problemRows' = [x \in DOMAIN problemRows \cup {k} |->
                                       IF x = k THEN row ELSE problemRows[x]]
  /\ idx' = idx + 1
  /\ UNCHANGED <<variant, csvVars, keyVars, pc, sheetId, remote, budget, fetched, hdr, companyMap,
                 countVars, output, companyRows, named, unresolvedRows, fatal>>

ProblemsDone ==
  /\ pc = "problems"
  /\ MayEnd("Problems")
  /\ pc' = "companies"
  /\ idx' = 0
  /\ UNCHANGED <<variant, csvVars, keyVars, sheetId, remote, budget, fetched, hdr,
                 indexVars, countVars, output, histVars>>

\* companies.forEach / companiesRows.forEach, one row
CompanyRow ==
  /\ pc = "companies"
  /\ fetched["Companies"] = "rows"
  /\ idx < budget["Companies"]
  /\ \E row \in CompanyRowsOf(hdr["Companies"], remote["Companies"].cells) :
       LET k == CompanyKey(variant, row) IN
       IF ~YieldsCompany(variant, row)
         THEN UNCHANGED <<companyMap, companyRows>>
         ELSE /\ companyMap' = Put(companyMap, k, CompanyOf(variant, row))
              /\ companyRows' =
                   [x \in DOMAIN companyRows \cup {k} |->
                      IF x # k THEN companyRows[x]
                      ELSE [first |-> IF k \in DOMAIN companyRows
                                        THEN companyRows[k].first ELSE row,
                            last |-> row]]
  /\ idx' = idx + 1
  /\ UNCHANGED <<variant, csvVars, keyVars, pc, sheetId, remote, budget, fetched, hdr, problemMap,
                 problemsCount, countVars, output, problemRows, named, unresolvedRows, fatal>>

CompaniesDone ==
  /\ pc = "companies"
  /\ MayEnd("Companies")
  /\ pc' = "links"
  /\ idx' = 0
  /\ UNCHANGED <<variant, csvVars, keyVars, sheetId, remote, budget, fetched, hdr,
                 indexVars, countVars, output, histVars>>

\* What the link row's company reference names, as the spec speaks of it:
\* build-data.mjs knows a company by its normalized name; part_001 by its
\* normalized id, else by the first company of that normalized name.
NamedCompanies(v, row) ==
  IF v = "build"
    THEN {k \in Keys(companyMap) : k = norm(pick(v, row, <<"Company Name", "Company">>))}
    ELSE LET cidKey == norm(pick(v, row, <<"Company ID", "ID">>))
             cname == norm(pick(v, row, <<"Company Name", "Company">>))
             byName == {i \in 1..Len(companyMap) : norm(companyMap[i].rec.name) = cname}
         IN  IF cidKey \in Keys(companyMap) THEN {cidKey}
             ELSE IF byName # {}
                    THEN {companyMap[CHOOSE i \in byName : \A j \in byName : i <= j].key}
                    ELSE {}

LinkProblemText(v, row) == pick(v, row, <<"Problem", "Common Problem">>)

\* companyMap[cidKey] on a plain object: an own company, or a value inherited
\* from Object.prototype, or undefined.
LookupCompany(m, k) ==
  IF HasKey(m, k) THEN [kind |-> "company", key |-> k]
  ELSE IF k \in InheritedKeys THEN [kind |-> "inherited"]
  ELSE [kind |-> "none"]

\* Object.values(companyMap).find(c => norm(c.name) === cname)
FindByName(m, cname) ==
  LET hits == {i \in 1..Len(m) : norm(m[i].rec.name) = cname}
  IN  IF hits = {} THEN [kind |-> "none"]
      ELSE [kind |-> "company", key |-> m[CHOOSE i \in hits : \A j \in hits : i <= j].key]

\* company.solutions.some(x => norm(x.problem) === norm(p.problem)), with
\* keyify for norm in part_001
Already(v, solutions, p) ==
  \E i \in 1..Len(solutions) :
     ProblemKey(v, solutions[i].problem) = ProblemKey(v, p.problem)

\* company.solutions.push(p)
Attach(m, ck, p) ==
  [i \in 1..Len(m) |->
     IF m[i].key = ck
       THEN [m[i] EXCEPT !.rec.solutions = Append(@, p)]
       ELSE m[i]]

\* The history of a link row: whether its company reference names no company,
\* and the <<company, problem>> pair it names when both are in the indices.
NoteLink(row) ==
  LET cs == NamedCompanies(variant, row)
      pk == ProblemKey(variant, LinkProblemText(variant, row))
  IN  /\ unresolvedRows' = IF cs = {} THEN unresolvedRows + 1 ELSE unresolvedRows
      /\ named' = IF pk \in DOMAIN problemMap
                    THEN named \cup {<<ck, pk>> : ck \in cs}
                    ELSE named

\* companySolutions.forEach of build-data.mjs, one row
LinkRowBuild(s) ==
  LET cname == norm(pick("build", s, <<"Company Name", "Company">>))
      probRaw == pick("build", s, <<"Problem", "Common Problem">>)
      p == LookupProblem("build", problemMap, norm(probRaw))
  IN  IF cname = <<>> \/ probRaw = <<>>
        THEN UNCHANGED <<companyMap, countVars, pc>>
      ELSE IF ~HasKey(companyMap, cname)
        THEN /\ missingCompany' = missingCompany + 1
             /\ UNCHANGED <<companyMap, missingProblem, matchedLinks,
                            unmatchedCompanies, unmatchedProblems, pc>>
      ELSE IF p = NoValue
        THEN /\ missingProblem' = missingProblem + 1
             /\ UNCHANGED <<companyMap, missingCompany, matchedLinks,
                            unmatchedCompanies, unmatchedProblems, pc>>
      ELSE IF Already("build", Get(companyMap, cname).solutions, p)
        THEN UNCHANGED <<companyMap, countVars, pc>>
      ELSE /\ companyMap' = Attach(companyMap, cname, p)
           /\ UNCHANGED <<countVars, pc>>

\* linksRows.forEach of part_001, one row
LinkRowKeyify(r) ==
  LET cidKey == norm(pick("keyify", r, <<"Company ID", "ID">>))
      cname == norm(pick("keyify", r, <<"Company Name", "Company">>))
      byId == IF cidKey # <<>> THEN LookupCompany(companyMap, cidKey) ELSE [kind |-> "none"]
      company == IF byId.kind # "none" THEN byId ELSE FindByName(companyMap, cname)
      problemText == pick("keyify", r, <<"Problem", "Common Problem">>)
      p == LookupProblem("keyify", problemMap, keyify(problemText))
  IN  IF company.kind = "none"
        THEN /\ unmatchedCompanies' = unmatchedCompanies + 1
             /\ UNCHANGED <<companyMap, missingCompany, missingProblem, matchedLinks,
                            unmatchedProblems, pc>>
      ELSE IF p = NoValue
        THEN /\ unmatchedProblems' = IF problemText # <<>>
                                       THEN unmatchedProblems \cup {problemText}
                                       ELSE unmatchedProblems
             /\ UNCHANGED <<companyMap, missingCompany, missingProblem, matchedLinks,
                            unmatchedCompanies, pc>>
      ELSE IF company.kind = "inherited"
        \* company.solutions is undefined: .some throws a TypeError
        THEN /\ pc' = "crashed"
             /\ UNCHANGED <<companyMap, countVars>>
      ELSE IF Already("keyify", Get(companyMap, company.key).solutions, p)
        THEN UNCHANGED <<companyMap, countVars, pc>>
      ELSE /\ companyMap' = Attach(companyMap, company.key, p)
           /\ matchedLinks' = matchedLinks + 1
           /\ UNCHANGED <<missingCompany, missingProblem, unmatchedCompanies,
                          unmatchedProblems, pc>>

LinkRow ==
  /\ pc = "links"
  /\ fetched["Company Solutions"] = "rows"
  /\ idx < budget["Company Solutions"]
  /\ \E row \in LinkRowsOf(hdr["Company Solutions"], remote["Company Solutions"].cells) :
       /\ IF variant = "build" THEN LinkRowBuild(row) ELSE LinkRowKeyify(row)
       /\ NoteLink(row)
  /\ idx' = idx + 1
  /\ UNCHANGED <<variant, csvVars, keyVars, sheetId, remote, budget, fetched, hdr, problemMap,
                 problemsCount, output, companyRows, problemRows, fatal>>

LinksDone ==
  /\ pc = "links"
  /\ MayEnd("Company Solutions")
  /\ pc' = IF variant = "build" THEN "derive" ELSE "write"
  /\ idx' = 0
  /\ UNCHANGED <<variant, csvVars, keyVars, sheetId, remote, budget, fetched, hdr,
                 indexVars, countVars, output, histVars>>

\* The problems list left as it was made (empty).
ProblemsOfNone(solutions) == <<>>

\* c.solutions.map((s) => s.problem)
ProblemsOf(solutions) == [i \in 1..Len(solutions) |-> solutions[i].problem]

\* for (const c of companyMap.values()) c.problems = ...  (build-data.mjs)
DeriveProblems ==
  /\ pc = "derive"
  /\ companyMap' = [i \in 1..Len(companyMap) |->
                      [companyMap[i] EXCEPT !.rec.problems = ProblemsOf(companyMap[i].rec.solutions)]]
  /\ pc' = "write"
  /\ UNCHANGED <<variant, csvVars, keyVars, sheetId, remote, budget, fetched, hdr, idx, problemMap,
                 problemsCount, countVars, output, histVars>>

NullValue == [null |-> TRUE]

\* JSON.stringify writes a function found in an array as null.
JsonCompany(c) ==
  [c EXCEPT !.solutions = [i \in 1..Len(@) |-> IF @[i] = ObjectFunction THEN NullValue ELSE @[i]]]

\* fs.writeFileSync("data.json", JSON.stringify({ companies: [...values] }))
WriteOutput ==
  /\ pc = "write"
  /\ output' = [written |-> TRUE,
                companies |-> [i \in 1..Len(companyMap) |-> JsonCompany(companyMap[i].rec)]]
  /\ pc' = "done"
  /\ UNCHANGED <<variant, csvVars, keyVars, sheetId, remote, budget, fetched, hdr, idx,
                 indexVars, countVars, histVars>>

Next ==
  \/ CheckSheetId
  \/ LoadCompanies
  \/ LoadProblems
  \/ LoadLinks
  \/ ValidateHeaders
  \/ ProblemRow
  \/ ProblemsDone
  \/ CompanyRow
  \/ CompaniesDone
  \/ LinkRow
  \/ LinksDone
  \/ DeriveProblems
  \/ WriteOutput

\* The spreadsheets in which sheet s has one of the headers H[s], if it
\* answers with rows at all, and cells out of C[s].
Worlds(H, C) ==
  {w \in [Sheets -> UNION {SheetStates(H[s], C[s]) : s \in Sheets}] :
     \A s \in Sheets : w[s] \in SheetStates(H[s], C[s])}

Budgets ==
  [s \in Sheets |->
     CASE s = "Companies" -> MaxCompanyRows
       [] s = "Problems" -> MaxProblemRows
       [] s = "Company Solutions" -> MaxLinkRows]

\* The header the scripts are written for.
DocumentedHeader(sheet) ==
  CASE sheet = "Companies" -> {{"Company ID", "Company Name"} \cup CompanyColumns}
    [] sheet = "Problems" -> {{"Problem", "Solution", "Feature"}}
    [] sheet = "Company Solutions" -> {{"Company ID", "Company Name", "Problem"}}

T_a == <<"a">>
T_Abang == <<"A", BANG>>
T_b == <<"b">>
T_s1 == <<"s", "1">>
T_s2 == <<"s", "2">>
T_c1 == <<"c", "1">>
T_C1 == <<"C", "1">>
T_c2 == <<"c", "2">>
T_Ab == <<"A", "b">>
T_ab == <<"a", "b">>
T_Bc == <<"B", SP, "c">>
T_bc == <<"b", SP, "c">>

\* Reconciliation runs: two companies to tell apart, problems that differ in
\* case and punctuation only, link rows that name them by id or by name, or
\* name nothing that is there.
LinkCells(sheet) ==
  CASE sheet = "Companies" ->
         [ids |-> {T_c1}, names |-> {T_Ab, T_Bc}, details |-> {"1"}]
    [] sheet = "Problems" ->
         [problems |-> {T_a, T_Abang, T_b}, solutions |-> {T_s1, T_s2}, features |-> {<<"f">>}]
    [] sheet = "Company Solutions" ->
         [ids |-> {<<>>, T_C1, Constructor}, names |-> {<<>>, T_bc},
          problems |-> {<<>>, <<"A">>, T_b, Constructor}]

Init == InitRun(Worlds([s \in Sheets |-> DocumentedHeader(s)], [s \in Sheets |-> LinkCells(s)]), Budgets)

Spec == Init /\ [][Next]_vars

\* Company runs: a Companies sheet whose rows repeat ids and names in other
\* case, lack an id or a name, and differ in every other column; one problem
\* and one link row to attach it.
CompanyHeaders(sheet) ==
  IF sheet = "Companies"
    THEN {{"Company ID", "Company Name"} \cup CompanyColumns, {"Company Name"} \cup CompanyColumns}
    ELSE DocumentedHeader(sheet)

CompanyCells(sheet) ==
  CASE sheet = "Companies" ->
         [ids |-> {<<>>, T_c1, T_C1, T_c2}, names |-> {<<>>, T_Ab, T_ab, T_Bc},
          details |-> {"1", "2"}]
    [] sheet = "Problems" ->
         [problems |-> {T_a}, solutions |-> {T_s1}, features |-> {<<"f">>}]
    [] sheet = "Company Solutions" ->
         [ids |-> {T_c1}, names |-> {T_ab}, problems |-> {T_a}]

InitCompanies == InitRun(Worlds([s \in Sheets |-> CompanyHeaders(s)], [s \in Sheets |-> CompanyCells(s)]), Budgets)

SpecCompanies == InitCompanies /\ [][Next]_vars

\* Loading runs: every header the sheets may come back with, one row each.
LoadCells(sheet) ==
  CASE sheet = "Companies" ->
         [ids |-> {T_c1}, names |-> {T_Ab}, details |-> {"1"}]
    [] sheet = "Problems" ->
         [problems |-> {T_a}, solutions |-> {T_s1}, features |-> {<<"f">>}]
    [] sheet = "Company Solutions" ->
         [ids |-> {T_c1}, names |-> {T_ab}, problems |-> {T_a}]

InitLoad == InitRun(Worlds([s \in Sheets |-> HeaderChoices(s)], [s \in Sheets |-> LoadCells(s)]), Budgets)

SpecLoad == InitLoad /\ [][Next]_vars

-----------------------------------------------------------------------------
(* Claims about the build script *)

Solutions(i) == companyMap[i].rec.solutions

EntryKey(e) == ProblemKey(variant, e.problem)

\* No solutions list holds two entries of the same normalized problem.
NoDuplicateKeys ==
  \A i \in 1..Len(companyMap) : \A a, b \in 1..Len(Solutions(i)) :
     a # b => EntryKey(Solutions(i)[a]) # EntryKey(Solutions(i)[b])

\* Every company that link rows named with a problem of the index holds
\* exactly one entry of that problem.
OneEntryPerNamed ==
  \A pair \in named :
     \E i \in 1..Len(companyMap) :
        /\ companyMap[i].key = pair[1]
        /\ Cardinality({a \in 1..Len(Solutions(i)) : EntryKey(Solutions(i)[a]) = pair[2]}) = 1

\* C1: after any sequence of link rows no company's solutions list has two
\* entries of the same normalized problem, and a company named by one or more
\* resolvable link rows of a problem holds exactly one entry of it.
C1_Dedup == NoDuplicateKeys /\ OneEntryPerNamed

\* C2: in the document written by build-data.mjs every company's problems and
\* solutions are equally long and problems[i] is solutions[i].problem.
C2_DerivedListConsistent ==
  (variant = "build" /\ output # NotWritten) =>
     \A i \in 1..Len(output.companies) :
        LET c == output.companies[i] IN
        /\ Len(c.problems) = Len(c.solutions)
        /\ \A j \in 1..Len(c.solutions) : c.problems[j] = c.solutions[j].problem

\* build-data.mjs wrote a company with two problems attached.
C2_Witness ==
  /\ variant = "build"
  /\ output # NotWritten
  /\ \E i \in 1..Len(output.companies) :
       /\ Len(output.companies[i].solutions) = 2
       /\ output.companies[i].problems = <<T_a, T_b>>

ReconciliationUntouched ==
  /\ pc \in {"start", "loadCompanies", "loadProblems", "loadLinks", "validate", "aborted"}
  /\ idx = 0
  /\ problemMap = <<>>
  /\ companyMap = <<>>
  /\ problemRows = <<>>
  /\ companyRows = <<>>
  /\ unresolvedRows = 0
  /\ missingCompany = 0
  /\ missingProblem = 0

\* C3: a run of build-data.mjs that meets a fatal condition (no SHEET_ID, a
\* non-success response, a sheet of no rows, a required column missing) runs
\* no reconciliation step and never writes data.json.
C3_FailFast ==
  (variant = "build" /\ fatal # {}) => (ReconciliationUntouched /\ output = NotWritten)

\* All three sheets came back with rows, one lacked a required column, and
\* the run was aborted by the validation.
C3_Witness ==
  /\ variant = "build"
  /\ pc = "aborted"
  /\ fatal = {"schema"}
  /\ \A s \in Sheets : fetched[s] = "rows"
  /\ "Solution" \notin hdr["Problems"]

UnmatchedCompanyCount == IF variant = "build" THEN missingCompany ELSE unmatchedCompanies

\* C4: a link row whose company reference names no company of the index adds
\* exactly one to the unmatched-company counter and changes no solutions
\* list, nor the matched-link count, nor the unmatched-problem record.
C4_UnresolvedCounted ==
  [][unresolvedRows' = unresolvedRows + 1 =>
       /\ UnmatchedCompanyCount' = UnmatchedCompanyCount + 1
       /\ companyMap' = companyMap
       /\ matchedLinks' = matchedLinks
       /\ missingProblem' = missingProblem
       /\ unmatchedProblems' = unmatchedProblems]_vars

OutputKey(c) == IF variant = "build" THEN norm(c.name) ELSE norm(c.id)

Identity(c) ==
  [id |-> c.id, name |-> c.name, website |-> c.website, location |-> c.location,
   target |-> c.target, org_types |-> c.org_types]

\* The output holds exactly one company per identity key, with the identity
\* of the row Pick(first, last) of that key.
OneCompanyPerKey(Pick(_, _)) ==
  \A k \in DOMAIN companyRows :
     /\ Cardinality({i \in 1..Len(output.companies) : OutputKey(output.companies[i]) = k}) = 1
     /\ \A i \in 1..Len(output.companies) :
          OutputKey(output.companies[i]) = k =>
            Identity(output.companies[i]) =
              Identity(CompanyOf(variant, Pick(companyRows[k].first, companyRows[k].last)))

First(a, b) == a
Last(a, b) == b

\* C5 as stated: of the Companies rows of one identity key, the output holds
\* one company, with the id, name, website, location, target and org_types
\* of the first.
C5_FirstSeenWins == output # NotWritten => OneCompanyPerKey(First)

\* C5 as amended: of the Companies rows of one identity key that yield a
\* company, the output holds one company, with the id, name, website,
\* location, target and org_types of the last.
C5_LastSeenWins == output # NotWritten => OneCompanyPerKey(Last)

\* Two rows of one key that differ in every other column were read, and the
\* document was written.
C5_Witness ==
  /\ output # NotWritten
  /\ \E k \in DOMAIN companyRows :
       /\ companyRows[k].first # companyRows[k].last
       /\ Identity(CompanyOf(variant, companyRows[k].first)).website = <<"w", "1">>
       /\ Identity(CompanyOf(variant, companyRows[k].last)).website = <<"w", "2">>

\* C6: every entry of every solutions list is the record the problem index
\* holds under the entry's normalized problem, with the solution and feature
\* of the last Problems row of that key.
C6_AttachedAreIndexed ==
  \A i \in 1..Len(companyMap) : \A a \in 1..Len(Solutions(i)) :
     LET e == Solutions(i)[a]
         k == EntryKey(e)
     IN  /\ k \in DOMAIN problemMap
         /\ e = problemMap[k]
         /\ k \in DOMAIN problemRows
         /\ e.solution = problemRows[k]["Solution"]
         /\ e.feature = problemRows[k]["Feature"]

\* The names under which the spec documents each required column.
DocumentedAliases(sheet) ==
  CASE sheet = "Companies" -> {{"Company Name"}}
    [] sheet = "Problems" ->
         {{"Problem", "Common Problem"}, {"Solution"}, {"Feature", "OpenRecovery Feature"}}
    [] sheet = "Company Solutions" ->
         {{"Company Name", "Company ID"}, {"Problem", "Common Problem"}}

SomeFieldUnderNoAlias ==
  \E s \in Sheets : \E aliases \in DocumentedAliases(s) : aliases \cap hdr[s] = {}

\* C7: when the three sheets came back with rows, build-data.mjs aborts at
\* the validation only if a required field is there under none of its
\* documented aliases.
C7_AliasesAccepted ==
  (variant = "build" /\ pc = "aborted" /\ \A s \in Sheets : fetched[s] = "rows")
    => SomeFieldUnderNoAlias

-----------------------------------------------------------------------------
(* keyify applied once and twice *)

InitKey ==
  /\ variant = "keyify"
  /\ ks \in SeqsUpTo(KeyAlphabet, MaxKeyLen)
  /\ k1 = <<>>
  /\ k2 = <<>>
  /\ kpc = "in"
  /\ CsvIdle
  /\ PipeIdle

Keyify ==
  /\ kpc = "in"
  /\ k1' = keyify(ks)
  /\ kpc' = "once"
  /\ UNCHANGED <<variant, ks, k2, csvVars, pipeVars>>

Rekeyify ==
  /\ kpc = "once"
  /\ k2' = keyify(k1)
  /\ kpc' = "twice"
  /\ UNCHANGED <<variant, ks, k1, csvVars, pipeVars>>

NextKey == Keyify \/ Rekeyify

SpecKey == InitKey /\ [][NextKey]_vars

\* C10: keyify(keyify(s)) = keyify(s) for every s over KeyAlphabet.
C10_KeyifyIdempotent == kpc = "twice" => k2 = k1

\* An argument that keyify really changes (case, punctuation and a hyphen),
\* normalised twice.
C10_Witness ==
  /\ kpc = "twice"
  /\ ks = <<"A", HY, BANG>>
  /\ k1 = <<"a">>

=============================================================================
